---- MODULE Spec2Model ----
(***************************************************************************)
(* botogram: the updates fetcher (botogram/updates.py) and the components  *)
(* system (botogram/components.py) as state machines.                      *)
(*                                                                         *)
(*   SpecFetch  one UpdatesFetcher polled against a remote source          *)
(*   SpecComp   registrations on components and their hook chains          *)
(*   SpecHook   one invocation of a matches-hook or of a command hook      *)
(*   SpecPoll   SpecFetch under a caller that keeps polling                *)
(*   SpecWrap   registrations, and the hook chains built from them         *)
(***************************************************************************)
EXTENDS Integers, Sequences, FiniteSets, TLC

\* ---------------------------------------------------------------- bounds
MaxId == 4        \* update ids are 0 .. MaxId
MaxBatch == 4     \* longest batch one getUpdates call returns
MaxDate == 2      \* message dates are 0 .. MaxDate
MaxRegs == 3      \* registrations accepted over all components
MaxText == 5      \* longest message text, in characters
MaxDetails == 4   \* HookDetails objects made over all chains

VARIABLES
    \* UpdatesFetcher
    process_backlog,    \* bot.process_backlog
    last_id,            \* self._last_id
    started_at,         \* self._started_at
    backlog_processed,  \* self._backlog_processed
    pc,                 \* "idle" between calls, "search" inside the while loop
    offset,             \* the offset the last getUpdates call asked for
    updates,            \* the batch the last getUpdates call returned
    to_check,           \* locals of fetch's boundary search
    check_chunk,
    last,
    outcome,            \* how the last fetch ended: "none", "ok", "FetchError"
    ret_process,        \* first element of fetch's result (updates to process)
    ret_backlog,        \* second element of fetch's result (the backlog)
    max_seen,           \* greatest update_id any getUpdates call has returned
    resolved_at_call,   \* self._backlog_processed when the last fetch was called
    \* Component
    commands,           \* self.__commands, per component, in insertion order
    processors,         \* self.__processors, per component
    before_processors,  \* self.__before_processors, per component
    raised,             \* exception of the last registration call, or "none"
    reg_log,            \* the registrations each component accepted, in order
    proc_botogram,      \* the botogram attribute of each closure of
                        \* self.__processors: an index of details, 0 if unset
    \* hook descriptors
    details,            \* the HookDetails objects made so far
    fn_botogram,        \* the botogram attribute of each user function
    hooks_chain,        \* what the last _get_hooks_chain() of each component
                        \* returned: each handler and its botogram attribute
    \* one hook invocation
    hook,               \* the hook under invocation
    text,               \* message.text: a sequence of characters, or None
    calls,              \* the bot._call invocations the hook has made
    hook_ret            \* the hook's return value

fetchVars == <<process_backlog, last_id, started_at, backlog_processed, pc,
               offset, updates, to_check, check_chunk, last, outcome,
               ret_process, ret_backlog, max_seen, resolved_at_call>>
compVars == <<commands, processors, before_processors, raised, reg_log,
              proc_botogram>>
hookVars == <<hook, text, calls, hook_ret>>
wrapVars == <<details, fn_botogram, hooks_chain>>
vars == <<fetchVars, compVars, hookVars, wrapVars>>

None == "None"

\* ------------------------------------------------------ python helpers
\* int(x / 2) for a non-negative int x
HalfOf(x) == x \div 2

\* mutant: a negative slice bound is not counted from the end
PyIndexNoWrap(i, n) ==
    IF i < 0 THEN 0 ELSE IF i > n THEN n ELSE i

\* the position a slice bound i denotes in a list of length n
PyIndex(i, n) ==
    IF i < 0 THEN (IF n + i < 0 THEN 0 ELSE n + i)
    ELSE IF i > n THEN n ELSE i

\* s[i:]
SliceFrom(s, i) == SubSeq(s, PyIndex(i, Len(s)) + 1, Len(s))

\* mutant: the slice stops one element early
SliceToShort(s, i) ==
    SubSeq(s, 1, PyIndex(i, Len(s)) - 1)

\* s[:i]
SliceTo(s, i) == SubSeq(s, 1, PyIndex(i, Len(s)))

\* ------------------------------------------------------ remote source
Dates == 0 .. MaxDate

RECURSIVE Ascending(_)
\* the ids of S as a sequence in ascending order
Ascending(S) ==
    IF S = {} THEN <<>>
    ELSE LET m == CHOOSE x \in S : \A y \in S : x <= y
         IN  <<m>> \o Ascending(S \ {m})

\* what getUpdates may answer to a request for `off`: updates in ascending
\* update_id order, none below the offset
Batches(off) ==
    { [i \in 1 .. Cardinality(S) |->
          [update_id |-> Ascending(S)[i], date |-> ds[i]]] :
      <<S, ds>> \in UNION { {S0} \X [1 .. Cardinality(S0) -> Dates] :
                   S0 \in { S1 \in SUBSET (off .. MaxId) :
                              Cardinality(S1) <= MaxBatch } } }

\* ------------------------------------------------------ UpdatesFetcher
\* mutant: the process_backlog setting is ignored
BacklogProcessedNever == FALSE

\* __init__: self._backlog_processed is False unless bot.process_backlog
BacklogProcessedAtInit == process_backlog

\* __init__
FetcherInit ==
    /\ process_backlog \in BOOLEAN
    /\ last_id = -1
    /\ started_at \in 1 .. MaxDate
    /\ backlog_processed = BacklogProcessedAtInit
    /\ pc = "idle"
    /\ offset = -1
    /\ updates = <<>>
    /\ to_check = 0
    /\ check_chunk = 0
    /\ last = 0
    /\ outcome = "none"
    /\ ret_process = <<>>
    /\ ret_backlog = <<>>
    /\ max_seen = -1
    /\ resolved_at_call = FALSE

\* update.message.date < self._started_at
FromBacklog(update) == update.date < started_at

\* mutant: the cursor is taken from the first update of the batch
NewLastIdFirst(batch) ==
    IF batch = <<>> THEN last_id ELSE batch[1].update_id

\* self._last_id = updates[-1].update_id, unless the batch is empty
NewLastId(batch) ==
    IF batch = <<>> THEN last_id ELSE batch[Len(batch)].update_id

\* greatest update_id returned so far, this batch included
SeenWith(batch) ==
    LET ids == {max_seen} \cup { batch[i].update_id : i \in 1 .. Len(batch) }
    IN  CHOOSE m \in ids : \A x \in ids : x <= m

\* mutant: a batch fetched after the resolution re-arms the search
ReturnAllRearm(batch) ==
    /\ outcome' = "ok"
    /\ ret_process' = batch
    /\ ret_backlog' = <<>>
    /\ backlog_processed' = (batch = <<>>)
    /\ UNCHANGED <<pc, to_check, check_chunk, last>>

\* if self._backlog_processed: return updates, []
ReturnAll(batch) ==
    /\ outcome' = "ok"
    /\ ret_process' = batch
    /\ ret_backlog' = <<>>
    /\ UNCHANGED <<backlog_processed, pc, to_check, check_chunk, last>>

\* mutant: the empty batch returns without resolving the backlog
ReturnEmptyUnresolved ==
    /\ outcome' = "ok"
    /\ ret_process' = <<>>
    /\ ret_backlog' = <<>>
    /\ UNCHANGED <<backlog_processed, pc, to_check, check_chunk, last>>

\* if not updates: self._backlog_processed = True; return [], []
ReturnEmpty ==
    /\ backlog_processed' = TRUE
    /\ outcome' = "ok"
    /\ ret_process' = <<>>
    /\ ret_backlog' = <<>>
    /\ UNCHANGED <<pc, to_check, check_chunk, last>>

\* the locals of the boundary search before the first iteration
StartSearch(batch) ==
    /\ pc' = "search"
    /\ to_check' = Len(batch) - 1
    /\ check_chunk' = Len(batch)
    /\ last' = 0
    /\ outcome' = "none"
    /\ ret_process' = <<>>
    /\ ret_backlog' = <<>>
    /\ UNCHANGED backlog_processed

\* fetch, from the call up to the while loop: the request, the cursor, and
\* the two early returns
FetchCall(batch) ==
    /\ pc = "idle"
    /\ offset' = last_id + 1
    /\ updates' = batch
    /\ last_id' = NewLastId(batch)
    /\ max_seen' = SeenWith(batch)
    /\ resolved_at_call' = backlog_processed
    /\ IF backlog_processed THEN ReturnAll(batch)
       ELSE IF batch = <<>> THEN ReturnEmpty
       ELSE StartSearch(batch)
    /\ UNCHANGED <<process_backlog, started_at>>

\* mutant: the cursor moves on although the call failed
FetchFailAdvancing ==
    /\ pc = "idle"
    /\ offset' = last_id + 1
    /\ outcome' = "FetchError"
    /\ updates' = <<>>
    /\ ret_process' = <<>>
    /\ ret_backlog' = <<>>
    /\ resolved_at_call' = backlog_processed
    /\ last_id' = last_id + 1
    /\ UNCHANGED <<process_backlog, started_at, backlog_processed, pc,
                   to_check, check_chunk, last, max_seen>>

\* fetch when api.call raises ValueError: FetchError, nothing assigned
FetchFail ==
    /\ pc = "idle"
    /\ offset' = last_id + 1
    /\ outcome' = "FetchError"
    /\ updates' = <<>>
    /\ ret_process' = <<>>
    /\ ret_backlog' = <<>>
    /\ resolved_at_call' = backlog_processed
    /\ UNCHANGED <<process_backlog, last_id, started_at, backlog_processed, pc,
                   to_check, check_chunk, last, max_seen>>

\* mutant: the two lists are returned the other way round
ReturnSwapped(probe) ==
    /\ pc' = "idle"
    /\ outcome' = "ok"
    /\ ret_process' = SliceTo(updates, probe)
    /\ ret_backlog' = SliceFrom(updates, probe)

\* return updates[to_check:], updates[:to_check]
Return(probe) ==
    /\ pc' = "idle"
    /\ outcome' = "ok"
    /\ ret_process' = SliceFrom(updates, probe)
    /\ ret_backlog' = SliceTo(updates, probe)

\* direction: 1 (forward) when the update is from the backlog, else -1
Direction(update) == IF FromBacklog(update) THEN 1 ELSE -1

\* check_chunk = int(check_chunk / 2), at least 1
NextChunk(chunk) == IF HalfOf(chunk) = 0 THEN 1 ELSE HalfOf(chunk)

\* mutant: the convergence test looks for a forward move before this one
ConvergedAfterForward(direction, chunk) ==
    direction = 1 /\ last = 1 /\ chunk = 1

\* if direction == 1 and last == -1 and check_chunk == 1
Converged(direction, chunk) == direction = 1 /\ last = -1 /\ chunk = 1

\* mutant: only a probe past the end ends the loop
OutOfBoundsAbove(probe) == probe >= Len(updates)

\* a probe outside the list ends the loop
OutOfBounds(probe) == probe < 0 \/ probe >= Len(updates)

\* mutant: the two bounds tests are exchanged
ResolvedOnOverflow(probe) == probe >= Len(updates)

\* mutant: leaving the list on either side says the backlog is processed
ResolvedOnAnyExit(probe) == probe < 0 \/ probe >= Len(updates)

\* ... and only a probe before the list says the backlog is processed
ResolvedOnExit(probe) == probe < 0

\* one iteration of the while loop, and the return when it breaks
SearchStep ==
    /\ pc = "search"
    /\ LET update == updates[to_check + 1]
           direction == Direction(update)
           chunk == NextChunk(check_chunk)
           next == to_check + direction * chunk
       IN  /\ check_chunk' = chunk
           /\ IF Converged(direction, chunk)
              THEN /\ to_check' = to_check + 1
                   /\ backlog_processed' = TRUE
                   /\ last' = last
                   /\ Return(to_check + 1)
              ELSE /\ last' = direction
                   /\ to_check' = next
                   /\ IF OutOfBounds(next)
                      THEN /\ backlog_processed' =
                                (backlog_processed \/ ResolvedOnExit(next))
                           /\ Return(next)
                      ELSE UNCHANGED <<backlog_processed, pc, outcome,
                                       ret_process, ret_backlog>>
    /\ UNCHANGED <<process_backlog, last_id, started_at, offset, updates,
                   max_seen, resolved_at_call>>

\* ------------------------------------------------------ Component
Components == {"c1", "c2"}

\* a user function, as a function object
Fn(n) == [kind |-> "function", name |-> n]

\* values that are callable() and values that are not
Callables == {Fn("f"), Fn("g")}
NonCallables == {[kind |-> "value", name |-> "nc"]}
Handlers == Callables \cup NonCallables

\* callable(func): functions and the closures built from them
Callable(func) == func.kind # "value"

\* command names, as sequences of characters
CommandNames == {<<"s">>, <<"a", "s">>}

\* the word a contains hook is registered for
Words == {<<"a">>}

\* a pattern item that matches any one character and captures it: (.)
AnyChar == "(.)"

\* patterns a matches hook is registered with: a, aa, a(.)
Patterns == {<<"a">>, <<"a", "a">>, <<"a", AnyChar>>}

\* r'\b(' + string + r')\b': the word, as group 1, between word bounds
WordRegex(string) == [items |-> string, word |-> TRUE]

\* a pattern given as it is: literal characters and (.) items
PlainRegex(pattern) == [items |-> pattern, word |-> FALSE]

\* re.IGNORECASE if ignore_case else 0
FlagsOf(ignore_case) == IF ignore_case THEN "IGNORECASE" ELSE "0"

\* the closure `wrapped` of add_message_contains_hook around func
Wrapped(func) == [kind |-> "wrapped", name |-> func.name, func |-> func]

\* the closure `processor` of add_message_matches_hook around func
Processor(func, regex, flags, multiple) ==
    [kind |-> "processor", name |-> func.name, func |-> func,
     regex |-> regex, flags |-> flags, multiple |-> multiple]

\* __init__ of every component
ComponentInit ==
    /\ commands = [c \in Components |-> <<>>]
    /\ processors = [c \in Components |-> <<>>]
    /\ before_processors = [c \in Components |-> <<>>]
    /\ raised = "none"
    /\ reg_log = [c \in Components |-> <<>>]
    /\ proc_botogram = [c \in Components |-> <<>>]

\* registrations accepted so far, over all components
Registered ==
    LET n(c) == Len(commands[c]) + Len(processors[c])
                  + Len(before_processors[c])
    IN  n("c1") + n("c2")

\* the call raises: nothing is registered
Raise(exc) ==
    /\ raised' = exc
    /\ UNCHANGED <<commands, processors, before_processors, reg_log,
                   proc_botogram>>

\* the registration log of c with one more entry
Logged(c, entry) == [reg_log EXCEPT ![c] = Append(@, entry)]

\* mutant: the hook is appended without the callable() check
add_before_processing_hook_unchecked(c, func) ==
    /\ Registered < MaxRegs
    /\ before_processors' = [before_processors EXCEPT ![c] = Append(@, func)]
    /\ raised' = "none"
    /\ reg_log' = Logged(c, [op |-> "before", func |-> func])
    /\ UNCHANGED <<commands, processors, proc_botogram>>

\* add_before_processing_hook
add_before_processing_hook(c, func) ==
    IF ~Callable(func) THEN Raise("ValueError")
    ELSE /\ Registered < MaxRegs
         /\ before_processors' = [before_processors EXCEPT ![c] = Append(@, func)]
         /\ raised' = "none"
         /\ reg_log' = Logged(c, [op |-> "before", func |-> func])
         /\ UNCHANGED <<commands, processors, proc_botogram>>

\* add_process_message_hook
add_process_message_hook(c, func) ==
    IF ~Callable(func) THEN Raise("ValueError")
    ELSE /\ Registered < MaxRegs
         /\ processors' = [processors EXCEPT ![c] = Append(@, func)]
         /\ raised' = "none"
         /\ reg_log' = Logged(c, [op |-> "message", func |-> func])
         /\ proc_botogram' = [proc_botogram EXCEPT ![c] = Append(@, 0)]
         /\ UNCHANGED <<commands, before_processors>>

\* the body of add_message_matches_hook, logged as registration `op` of `user`
MatchesHook(c, func, regex, flags, multiple, op, user) ==
    IF ~Callable(func) THEN Raise("ValueError")
    ELSE /\ Registered < MaxRegs
         /\ processors' = [processors EXCEPT
                ![c] = Append(@, Processor(func, regex, flags, multiple))]
         /\ raised' = "none"
         /\ reg_log' = Logged(c, [op |-> op, func |-> user])
         /\ proc_botogram' = [proc_botogram EXCEPT
                ![c] = Append(@, fn_botogram[user.name])]
         /\ UNCHANGED <<commands, before_processors>>

\* add_message_matches_hook
add_message_matches_hook(c, func, regex, flags, multiple) ==
    MatchesHook(c, func, regex, flags, multiple, "matches", func)

\* add_message_contains_hook
add_message_contains_hook(c, func, string, ignore_case, multiple) ==
    IF ~Callable(func) THEN Raise("ValueError")
    ELSE MatchesHook(c, Wrapped(func), WordRegex(string), FlagsOf(ignore_case),
                     multiple, "contains", func)

\* name in self.__commands
HasCommand(c, name) ==
    \E i \in 1 .. Len(commands[c]) : commands[c][i].name = name

\* mutant: no duplicate check, a registered name is bound to the new handler
add_command_overwrite(c, func, name) ==
    IF ~Callable(func) THEN Raise("ValueError")
    ELSE IF HasCommand(c, name)
    THEN /\ commands' = [commands EXCEPT ![c] =
                [i \in 1 .. Len(@) |->
                    IF @[i].name = name THEN [name |-> name, func |-> func]
                    ELSE @[i]]]
         /\ raised' = "none"
         /\ UNCHANGED <<processors, before_processors, reg_log,
                        proc_botogram>>
    ELSE /\ Registered < MaxRegs
         /\ commands' = [commands EXCEPT
                ![c] = Append(@, [name |-> name, func |-> func])]
         /\ raised' = "none"
         /\ reg_log' = Logged(c, [op |-> "command", func |-> func,
                                  name |-> name])
         /\ UNCHANGED <<processors, before_processors, proc_botogram>>

\* add_command
add_command(c, func, name) ==
    IF HasCommand(c, name) THEN Raise("NameError")
    ELSE IF ~Callable(func) THEN Raise("ValueError")
    ELSE /\ Registered < MaxRegs
         /\ commands' = [commands EXCEPT
                ![c] = Append(@, [name |-> name, func |-> func])]
         /\ raised' = "none"
         /\ reg_log' = Logged(c, [op |-> "command", func |-> func,
                                  name |-> name])
         /\ UNCHANGED <<processors, before_processors, proc_botogram>>

\* _get_commands: the mapping, as the set of its (name, handler) items
GetCommands(c) == { commands[c][i] : i \in 1 .. Len(commands[c]) }

\* the closure `__` of base(name, func)
CommandHook(name, func) ==
    [kind |-> "command", name |-> func.name, command |-> name, func |-> func]

\* __generate_commands_processors: one hook per item of the dict, in the
\* dict's iteration order (insertion order)
GenerateCommandsProcessors(c) ==
    [i \in 1 .. Len(commands[c]) |->
        CommandHook(commands[c][i].name, commands[c][i].func)]

\* mutant: the message hooks are listed before the command hooks
GetHooksChainSwapped(c) ==
    <<before_processors[c], processors[c], GenerateCommandsProcessors(c)>>

\* _get_hooks_chain: __wrap_function hands back each function it is given
GetHooksChain(c) ==
    <<before_processors[c], GenerateCommandsProcessors(c), processors[c]>>

\* ------------------------------------------------------ hook descriptors
\* self.component_name: the first component is named, the second is made
\* with name=""
ComponentName(c) == IF c = "c2" THEN "" ELSE c

\* HookDetails.__init__
HookDetails == [name |-> <<>>, component |-> None]

\* no HookDetails object yet, no function has a botogram attribute, no chain
\* has been asked for
WrapInit ==
    /\ details = <<>>
    /\ fn_botogram = [n \in {f.name : f \in Callables} |-> 0]
    /\ hooks_chain = [c \in Components |-> <<>>]

\* self.component_name + "::" if self.component_name else ""
Prefix(c) ==
    IF ComponentName(c) # "" THEN <<ComponentName(c), "::">> ELSE <<>>

\* __wrap_function on a function object named fname whose botogram
\* attribute is the object `id` of the heap dets, or is not there (0): the
\* heap afterwards, and the object the attribute then is
WrapFunction(c, dets, id, fname) ==
    LET made == IF id = 0 THEN Append(dets, HookDetails) ELSE dets
        k == IF id = 0 THEN Len(dets) + 1 ELSE id
    IN  [details |-> [made EXCEPT ![k] = [name |-> Prefix(c) \o <<fname>>,
                                          component |-> c]],
         id |-> k]

RECURSIVE WrapAll(_, _, _, _)
\* [self.__wrap_function(f) for f in hs], from the i-th on. A user function
\* carries its own attribute; a closure of self.__processors carries the
\* one functools.wraps copied when it was made, or the one an earlier chain
\* gave it; a command hook was made just now, by functools.wraps around
\* the handler as it was before this chain.
WrapAll(c, hs, i, st) ==
    IF i > Len(hs) THEN st
    ELSE LET h == hs[i]
             id == CASE h.kind = "function" -> st.fn[h.name]
                     [] h.kind = "command" -> fn_botogram[h.func.name]
                     [] h.kind = "processor" -> st.cl[i]
             w == WrapFunction(c, st.details, id, h.name)
         IN  WrapAll(c, hs, i + 1,
                [details |-> w.details,
                 fn |-> IF h.kind = "function"
                        THEN [st.fn EXCEPT ![h.name] = w.id] ELSE st.fn,
                 cl |-> IF h.kind = "processor"
                        THEN [st.cl EXCEPT ![i] = w.id] ELSE st.cl,
                 out |-> Append(st.out, [handler |-> h, botogram |-> w.id])])

\* _get_hooks_chain, with what __wrap_function does to the functions
get_hooks_chain(c) ==
    LET groups == GetHooksChain(c)
        s0 == [details |-> details, fn |-> fn_botogram,
               cl |-> proc_botogram[c], out |-> <<>>]
        s1 == WrapAll(c, groups[1], 1, s0)
        s2 == WrapAll(c, groups[2], 1, [s1 EXCEPT !.out = <<>>])
        s3 == WrapAll(c, groups[3], 1, [s2 EXCEPT !.out = <<>>])
    IN  /\ Len(s3.details) <= MaxDetails
        /\ details' = s3.details
        /\ fn_botogram' = s3.fn
        /\ proc_botogram' = [proc_botogram EXCEPT ![c] = s3.cl]
        /\ hooks_chain' = [hooks_chain EXCEPT
               ![c] = <<s1.out, s2.out, s3.out>>]
        /\ UNCHANGED <<commands, processors, before_processors, raised,
                       reg_log>>

\* ------------------------------------------------------ hooks at work
\* the characters of message texts
Chars == {"/", "s", "a", " ", "\t"}

\* message.text is None
NoText == [none |-> TRUE, chars |-> <<>>]

\* message.text is the string of these characters
Text(chars) == [none |-> FALSE, chars |-> chars]

Texts == {NoText} \cup
         { Text(chars) : chars \in UNION { [1 .. n -> Chars] : n \in 0 .. MaxText } }

\* \w of the re module, over Chars
WordChar(ch) == ch \in {"s", "a"}

\* str.lower on one character
Lower(ch) == IF ch = "A" THEN "a" ELSE IF ch = "S" THEN "s" ELSE ch

\* \b at position p: between chars[p - 1] and chars[p], one of them a word
\* character and the other not (the ends of the text count as not)
WordBoundary(chars, p) ==
    LET before == p > 1 /\ WordChar(chars[p - 1])
        after == p <= Len(chars) /\ WordChar(chars[p])
    IN  before # after

\* the pattern item matches the character under the flags
ItemMatches(item, ch, flags) ==
    \/ item = AnyChar
    \/ item = ch
    \/ flags = "IGNORECASE" /\ Lower(item) = Lower(ch)

\* the compiled pattern matches at position i
MatchAt(regex, flags, chars, i) ==
    LET n == Len(regex.items)
    IN  /\ i + n - 1 <= Len(chars)
        /\ \A j \in 1 .. n : ItemMatches(regex.items[j], chars[i + j - 1], flags)
        /\ regex.word => WordBoundary(chars, i) /\ WordBoundary(chars, i + n)

RECURSIVE GroupsAt(_, _, _)
\* result.groups() of the match at i: the word, or the characters the
\* (.) items matched
GroupsAt(regex, chars, i) ==
    LET n == Len(regex.items)
    IN  IF regex.word THEN <<SubSeq(chars, i, i + n - 1)>>
        ELSE IF n = 0 THEN <<>>
        ELSE (IF Head(regex.items) = AnyChar THEN <<chars[i]>> ELSE <<>>)
               \o GroupsAt([regex EXCEPT !.items = Tail(@)], chars, i + 1)

RECURSIVE FindIter(_, _, _, _)
\* compiled.finditer(text): the non-overlapping matches from `from` on, left
\* to right
FindIter(regex, flags, chars, from) ==
    LET starts == { i \in from .. Len(chars) : MatchAt(regex, flags, chars, i) }
    IN  IF starts = {} THEN <<>>
        ELSE LET i == CHOOSE x \in starts : \A y \in starts : x <= y
             IN  <<[start |-> i, groups |-> GroupsAt(regex, chars, i)]>>
                   \o FindIter(regex, flags, chars, i + Len(regex.items))

\* bot._call(func, chat, message, *args): the user callbacks it runs, with
\* the arguments they get after chat and message; `wrapped` passes none on
BotCall(func, args) ==
    IF func.kind = "wrapped" THEN <<[func |-> func.func, args |-> <<>>]>>
    ELSE <<[func |-> func, args |-> args]>>

RECURSIVE ForResultsNoBreak(_, _, _, _, _)
\* mutant: the loop over the matches never breaks
ForResultsNoBreak(results, i, func, multiple, acc) ==
    IF i > Len(results) THEN acc
    ELSE ForResultsNoBreak(results, i + 1, func, multiple,
            [found |-> TRUE,
             calls |-> acc.calls \o BotCall(func, <<results[i].groups>>)])

RECURSIVE ForResults(_, _, _, _, _)
\* for result in results: found = True; bot._call(...); break unless multiple
ForResults(results, i, func, multiple, acc) ==
    IF i > Len(results) THEN acc
    ELSE LET done == [found |-> TRUE,
                      calls |-> acc.calls
                                  \o BotCall(func, <<results[i].groups>>)]
         IN  IF ~multiple THEN done
             ELSE ForResults(results, i + 1, func, multiple, done)

\* the closure `processor` invoked on the message
InvokeProcessor ==
    /\ hook.kind = "processor"
    /\ hook_ret = "pending"
    /\ IF text.none
       THEN /\ hook_ret' = "None"
            /\ UNCHANGED calls
       ELSE LET results == FindIter(hook.regex, hook.flags, text.chars, 1)
                run == ForResults(results, 1, hook.func, hook.multiple,
                                  [found |-> FALSE, calls |-> <<>>])
            IN  /\ calls' = calls \o run.calls
                /\ hook_ret' = IF run.found THEN "True" ELSE "False"
    /\ UNCHANGED <<hook, text>>

\* the bot's username, for commands given as /name@username
Username == <<"b", "o", "t">>

\* bot._commands_re.match(text): a slash, the command name, the bot's
\* mention if any, then the end of the text or a space and the rest
CommandsReMatch(chars) ==
    LET isName(i) == i <= Len(chars) /\ WordChar(chars[i])
        stop == CHOOSE i \in 2 .. Len(chars) + 1 :
                    /\ ~isName(i)
                    /\ \A j \in 2 .. i - 1 : isName(j)
        rest == SubSeq(chars, stop, Len(chars))
        m == Len(Username) + 1
        mention == /\ Len(rest) >= m
                   /\ SubSeq(rest, 1, m) = <<"@">> \o Username
        tail == IF mention THEN SubSeq(rest, m + 1, Len(rest)) ELSE rest
    IN  IF chars # <<>> /\ chars[1] = "/" /\ stop > 2
             /\ (tail = <<>> \/ tail[1] = " ")
        THEN [matched |-> TRUE, group1 |-> SubSeq(chars, 2, stop - 1)]
        ELSE [matched |-> FALSE, group1 |-> <<>>]

RECURSIVE Split(_, _)
\* str.split(sep) for a one-character sep: the pieces between the
\* separators, empty pieces included
Split(chars, sep) ==
    LET cuts == { i \in 1 .. Len(chars) : chars[i] = sep }
    IN  IF cuts = {} THEN <<chars>>
        ELSE LET i == CHOOSE x \in cuts : \A y \in cuts : x <= y
             IN  <<SubSeq(chars, 1, i - 1)>>
                   \o Split(SubSeq(chars, i + 1, Len(chars)), sep)

\* args = message.text.split(" ")[1:]
CommandArgs(chars) == Tail(Split(chars, " "))

\* the closure `__` of base(name, func) invoked on the message
InvokeCommandHook ==
    /\ hook.kind = "command"
    /\ hook_ret = "pending"
    /\ IF text.none
       THEN /\ hook_ret' = "None"
            /\ UNCHANGED calls
       ELSE LET match == CommandsReMatch(text.chars)
            IN  IF ~match.matched \/ match.group1 # hook.command
                THEN /\ hook_ret' = "None"
                     /\ UNCHANGED calls
                ELSE /\ calls' = calls
                          \o BotCall(hook.func, <<CommandArgs(text.chars)>>)
                     /\ hook_ret' = "True"
    /\ UNCHANGED <<hook, text>>

\* the hooks a component's chain can hold for the user function f
Hooks ==
    { Processor(Fn("f"), PlainRegex(p), "0", m) :
        p \in Patterns, m \in BOOLEAN }
    \cup { Processor(Wrapped(Fn("f")), WordRegex(w), FlagsOf(ic), m) :
             w \in Words, ic \in BOOLEAN, m \in BOOLEAN }
    \cup { CommandHook(name, Fn("f")) : name \in CommandNames }

\* a hook of a chain about to be invoked on a message
HookInit ==
    /\ hook \in Hooks
    /\ text \in Texts
    /\ calls = <<>>
    /\ hook_ret = "pending"

\* ------------------------------------------------------ idle parts
CompIdle ==
    /\ commands = <<>>
    /\ processors = <<>>
    /\ before_processors = <<>>
    /\ raised = "none"
    /\ reg_log = <<>>
    /\ proc_botogram = <<>>

HookIdle ==
    /\ hook = None
    /\ text = NoText
    /\ calls = <<>>
    /\ hook_ret = "pending"

FetcherIdle ==
    /\ process_backlog = FALSE
    /\ last_id = -1
    /\ started_at = 1
    /\ backlog_processed = FALSE
    /\ pc = "idle"
    /\ offset = -1
    /\ updates = <<>>
    /\ to_check = 0
    /\ check_chunk = 0
    /\ last = 0
    /\ outcome = "none"
    /\ ret_process = <<>>
    /\ ret_backlog = <<>>
    /\ max_seen = -1
    /\ resolved_at_call = FALSE

\* ------------------------------------------------------ SpecFetch
InitFetch == FetcherInit /\ CompIdle /\ HookIdle /\ WrapInit

NextFetch ==
    \/ \E batch \in Batches(last_id + 1) :
           FetchCall(batch) /\ UNCHANGED <<compVars, hookVars, wrapVars>>
    \/ FetchFail /\ UNCHANGED <<compVars, hookVars, wrapVars>>
    \/ SearchStep /\ UNCHANGED <<compVars, hookVars, wrapVars>>

SpecFetch == InitFetch /\ [][NextFetch]_vars

\* ------------------------------------------------------ SpecPoll
\* the fetcher under a caller that keeps polling a source that hands out
\* its pending updates in order, each dated just before started_at or at
\* it: a getUpdates call that answers is made again and again, and a fetch
\* that has entered the while loop runs it
Pending(off) ==
    UNION { { [i \in 1 .. n |->
                 [update_id |-> off + i - 1,
                  date |-> IF live[i] THEN started_at ELSE started_at - 1]] :
              live \in [1 .. n -> BOOLEAN] } :
            n \in { m \in 0 .. MaxBatch : off + m - 1 <= MaxId } }

Poll ==
    \E batch \in Pending(last_id + 1) :
        FetchCall(batch) /\ UNCHANGED <<compVars, hookVars, wrapVars>>

Loop == SearchStep /\ UNCHANGED <<compVars, hookVars, wrapVars>>

NextPoll ==
    \/ Poll
    \/ FetchFail /\ UNCHANGED <<compVars, hookVars, wrapVars>>
    \/ Loop

SpecPoll ==
    InitFetch /\ [][NextPoll]_vars /\ WF_vars(Poll) /\ WF_vars(Loop)

\* ------------------------------------------------------ SpecComp
\* the pattern hooks are registered with the defaults of ignore_case, flags
\* and multiple
InitComp == ComponentInit /\ FetcherIdle /\ HookIdle /\ WrapInit

NextComp ==
    \/ \E c \in Components, func \in Handlers :
           add_before_processing_hook(c, func)
             /\ UNCHANGED <<fetchVars, hookVars, wrapVars>>
    \/ \E c \in Components, func \in Handlers :
           add_process_message_hook(c, func)
             /\ UNCHANGED <<fetchVars, hookVars, wrapVars>>
    \/ \E c \in Components, func \in Handlers, string \in Words :
           add_message_contains_hook(c, func, string, TRUE, FALSE)
             /\ UNCHANGED <<fetchVars, hookVars, wrapVars>>
    \/ \E c \in Components, func \in Handlers, string \in Words :
           add_message_matches_hook(c, func, PlainRegex(string), "0", FALSE)
             /\ UNCHANGED <<fetchVars, hookVars, wrapVars>>
    \/ \E c \in Components, func \in Handlers, name \in CommandNames :
           add_command(c, func, name)
             /\ UNCHANGED <<fetchVars, hookVars, wrapVars>>

SpecComp == InitComp /\ [][NextComp]_vars

\* ------------------------------------------------------ SpecWrap
\* functions are registered with the components and the chains are asked
\* for, in any order
NextWrap ==
    \/ \E c \in Components, func \in Callables :
           add_before_processing_hook(c, func)
             /\ UNCHANGED <<fetchVars, hookVars, wrapVars>>
    \/ \E c \in Components, func \in Callables :
           add_process_message_hook(c, func)
             /\ UNCHANGED <<fetchVars, hookVars, wrapVars>>
    \/ \E c \in Components, func \in Callables, string \in Words :
           add_message_contains_hook(c, func, string, TRUE, FALSE)
             /\ UNCHANGED <<fetchVars, hookVars, wrapVars>>
    \/ \E c \in Components, func \in Callables, name \in CommandNames :
           add_command(c, func, name)
             /\ UNCHANGED <<fetchVars, hookVars, wrapVars>>
    \/ \E c \in Components :
           get_hooks_chain(c) /\ UNCHANGED <<fetchVars, hookVars>>

SpecWrap == InitComp /\ [][NextWrap]_vars

\* ------------------------------------------------------ SpecHook
InitHook == HookInit /\ FetcherIdle /\ CompIdle /\ WrapInit

NextHook ==
    \/ InvokeProcessor /\ UNCHANGED <<fetchVars, compVars, wrapVars>>
    \/ InvokeCommandHook /\ UNCHANGED <<fetchVars, compVars, wrapVars>>

SpecHook == InitHook /\ [][NextHook]_vars

\* ------------------------------------------------------ fetcher claims
\* a fetch has returned normally
Done == pc = "idle" /\ outcome = "ok"

\* a fetch called in AwaitingBacklogResolution has returned normally
DoneAwaiting == Done /\ ~resolved_at_call

NonDecreasing(batch) ==
    \A i \in 1 .. Len(batch) - 1 : batch[i].date <= batch[i + 1].date

HasBacklog(batch) == \E i \in 1 .. Len(batch) : batch[i].date < started_at

HasLive(batch) == \E i \in 1 .. Len(batch) : batch[i].date >= started_at

\* the updates of the batch dated before started_at, in batch order
RECURSIVE BacklogPrefix(_)
BacklogPrefix(batch) ==
    IF batch = <<>> \/ Head(batch).date >= started_at THEN <<>>
    ELSE <<Head(batch)>> \o BacklogPrefix(Tail(batch))

\* C1: a fetch made in AwaitingBacklogResolution on a batch with
\* non-decreasing dates that holds both backlog and live updates returns
\* the prefix dated before started_at as backlog and the rest as live, and
\* leaves the fetcher BacklogResolved.
C1_ExactSplit ==
    (DoneAwaiting /\ NonDecreasing(updates)
        /\ HasBacklog(updates) /\ HasLive(updates))
    => /\ ret_backlog = BacklogPrefix(updates)
       /\ ret_backlog \o ret_process = updates
       /\ backlog_processed

\* every date of the batch is before started_at
AllBacklog(batch) == batch # <<>> /\ ~HasLive(batch)

\* C2 as stated: an all-backlog batch fetched in AwaitingBacklogResolution
\* returns live = [], backlog = the batch, and resolves the backlog.
C2_AllBacklogResolves ==
    (DoneAwaiting /\ AllBacklog(updates))
    => /\ ret_process = <<>>
       /\ ret_backlog = updates
       /\ backlog_processed

\* C2 amended: an all-backlog batch fetched in AwaitingBacklogResolution
\* returns live = [], backlog = the batch, and the fetcher stays in
\* AwaitingBacklogResolution.
C2_AllBacklogStaysAwaiting ==
    (DoneAwaiting /\ AllBacklog(updates))
    => /\ ret_process = <<>>
       /\ ret_backlog = updates
       /\ ~backlog_processed

C2_Witness ==
    /\ DoneAwaiting /\ AllBacklog(updates) /\ Len(updates) >= 3
    /\ ret_backlog = updates

\* C3: last_id starts at -1 and never decreases; every fetch asks for
\* offset last_id + 1, which is above every update_id returned before; an
\* empty batch leaves last_id alone and a non-empty one leaves it at the
\* greatest update_id seen in any fetch so far.
C3_Cursor ==
    /\ last_id = -1
    /\ [][ /\ last_id' >= last_id
           /\ pc = "idle" =>
                /\ offset' = last_id + 1
                /\ offset' > max_seen
                /\ (outcome' # "FetchError" /\ updates' = <<>>)
                       => last_id' = last_id
                /\ updates' # <<>> => last_id' = max_seen' ]_vars

C3_Witness ==
    /\ Done /\ offset >= 2 /\ Len(updates) >= 2
    /\ last_id = max_seen /\ last_id > updates[1].update_id

\* C4: process_backlog = true means BacklogResolved from construction on,
\* and a fetch called in BacklogResolved returns (the whole batch, [])
\* whatever the dates are, never entering the boundary search.
C4_Bypass ==
    /\ process_backlog => backlog_processed
    /\ pc = "search" => ~resolved_at_call
    /\ (Done /\ resolved_at_call)
          => ret_process = updates /\ ret_backlog = <<>>

C4_Witness ==
    /\ process_backlog /\ Done /\ resolved_at_call
    /\ HasBacklog(updates) /\ HasLive(updates)
    /\ ret_process = updates

\* C10: an empty batch fetched in AwaitingBacklogResolution resolves the
\* backlog, returns ([], []) and leaves last_id as it was.
C10_EmptyBatch ==
    (DoneAwaiting /\ updates = <<>>)
    => /\ backlog_processed
       /\ ret_process = <<>> /\ ret_backlog = <<>>
       /\ last_id = offset - 1

C10_Witness ==
    /\ DoneAwaiting /\ updates = <<>> /\ backlog_processed
    /\ last_id >= 1

\* ------------------------------------------------------ component claims
\* the entries of a registration log made by the given registration methods
Regs(log, ops) == SelectSeq(log, LAMBDA e : e.op \in ops)

\* every command a component accepted is in its _get_commands mapping
Retrievable ==
    \A c \in Components :
        \A i \in 1 .. Len(reg_log[c]) :
            reg_log[c][i].op = "command" =>
                [name |-> reg_log[c][i].name, func |-> reg_log[c][i].func]
                    \in GetCommands(c)

\* C5: add_command with a name new to the component (and a callable handler)
\* adds exactly name -> handler and keeps the earlier mappings, so every
\* accepted command stays retrievable; with a name the component already
\* has it raises DuplicateCommand (NameError) and changes neither the
\* commands nor the before-hooks nor the message-hooks.
C5_AddCommand ==
    /\ []Retrievable
    /\ [][\A c \in Components, func \in Handlers, name \in CommandNames :
            add_command(c, func, name) =>
                IF HasCommand(c, name)
                THEN /\ raised' = "NameError"
                     /\ UNCHANGED <<commands, processors, before_processors>>
                ELSE Callable(func) =>
                     /\ raised' = "none"
                     /\ GetCommands(c)' = GetCommands(c)
                            \cup {[name |-> name, func |-> func]}
                     /\ \A d \in Components \ {c} : commands'[d] = commands[d]
                     /\ UNCHANGED <<processors, before_processors>> ]_vars

C5_Witness ==
    /\ raised = "NameError"
    /\ Cardinality(GetCommands("c1")) = 2
    /\ \E e \in GetCommands("c2") : e \notin GetCommands("c1")

\* the hook the message group holds for one logged registration
HookOfReg(h, e) ==
    CASE e.op = "message" -> h = e.func
      [] e.op = "matches" -> h.kind = "processor" /\ h.func = e.func
      [] e.op = "contains" ->
            /\ h.kind = "processor"
            /\ h.func.kind = "wrapped"
            /\ h.func.func = e.func

\* C6: the hook chain of a component is three groups, before-hooks, command
\* hooks, message-hooks; the first lists the before-hooks in registration
\* order, the second one hook per command in registration order, the third
\* the message, matches and contains hooks in the order they were
\* registered in.
C6_ChainOrder ==
    \A c \in Components :
        LET chain == GetHooksChain(c)
            before == Regs(reg_log[c], {"before"})
            cmds == Regs(reg_log[c], {"command"})
            msgs == Regs(reg_log[c], {"message", "matches", "contains"})
        IN  /\ Len(chain) = 3
            /\ chain[1] = [i \in 1 .. Len(before) |-> before[i].func]
            /\ Len(chain[2]) = Len(cmds)
            /\ \A i \in 1 .. Len(cmds) :
                   /\ chain[2][i].kind = "command"
                   /\ chain[2][i].command = cmds[i].name
                   /\ chain[2][i].func = cmds[i].func
            /\ Len(chain[3]) = Len(msgs)
            /\ \A i \in 1 .. Len(msgs) : HookOfReg(chain[3][i], msgs[i])

C6_Witness ==
    \E c \in Components :
        /\ Len(reg_log[c]) = 3
        /\ reg_log[c][1].op = "contains"
        /\ reg_log[c][2].op = "command"
        /\ reg_log[c][3].op = "message"
        /\ Len(GetHooksChain(c)[3]) = 2

\* no hook of any chain is a non-callable value
AllHooksCallable ==
    \A c \in Components : \A g \in 1 .. 3 :
        \A i \in 1 .. Len(GetHooksChain(c)[g]) :
            Callable(GetHooksChain(c)[g][i])

\* a registration call with handler func, whatever its other arguments
RegistrationCall(c, func) ==
    \/ add_before_processing_hook(c, func)
    \/ add_process_message_hook(c, func)
    \/ \E string \in Words, ic \in BOOLEAN, multiple \in BOOLEAN :
           add_message_contains_hook(c, func, string, ic, multiple)
    \/ \E string \in Words, multiple \in BOOLEAN :
           add_message_matches_hook(c, func, PlainRegex(string), "0", multiple)

\* the registration is refused with exc and registers nothing
Refused(exc) ==
    /\ raised' = exc
    /\ UNCHANGED <<commands, processors, before_processors>>

\* C9 as stated: every registration method called with a non-callable
\* handler fails with InvalidHandler (ValueError) and leaves the component
\* unchanged, so no chain ever holds a non-callable value.
C9_NonCallableInvalid ==
    /\ []AllHooksCallable
    /\ [][\A c \in Components, func \in NonCallables :
            /\ RegistrationCall(c, func) => Refused("ValueError")
            /\ \A name \in CommandNames :
                   add_command(c, func, name) => Refused("ValueError") ]_vars

\* C9 amended: as stated, except that add_command with a name the component
\* already has fails with DuplicateCommand (NameError) instead, the handler
\* being callable or not.
C9_NonCallableRefused ==
    /\ []AllHooksCallable
    /\ [][\A c \in Components, func \in NonCallables :
            /\ RegistrationCall(c, func) => Refused("ValueError")
            /\ \A name \in CommandNames :
                   add_command(c, func, name) =>
                       IF HasCommand(c, name) THEN Refused("NameError")
                       ELSE Refused("ValueError") ]_vars

C9_Witness ==
    /\ raised = "ValueError"
    /\ \E c \in Components :
           /\ commands[c] # <<>>
           /\ processors[c] # <<>>
           /\ before_processors[c] # <<>>

\* ------------------------------------------------------ hook claims
\* the user callback invocation a matches-hook owes to one match
CallFor(h, m) ==
    IF h.func.kind = "wrapped" THEN [func |-> h.func.func, args |-> <<>>]
    ELSE [func |-> h.func, args |-> <<m.groups>>]

\* C7: a matches-hook run on a text with k non-overlapping matches calls the
\* user callback once per match, left to right, k times when multiple is
\* true and min(k, 1) times otherwise; it returns true when k >= 1 and false,
\* with no call, when k = 0.
C7_MatchesCalls ==
    (hook.kind = "processor" /\ hook_ret # "pending" /\ ~text.none)
    => LET ms == FindIter(hook.regex, hook.flags, text.chars, 1)
           k == Len(ms)
           n == IF hook.multiple \/ k = 0 THEN k ELSE 1
       IN  /\ calls = [i \in 1 .. n |-> CallFor(hook, ms[i])]
           /\ \A i \in 1 .. k - 1 :
                  ms[i].start + Len(hook.regex.items) <= ms[i + 1].start
           /\ hook_ret = (IF k >= 1 THEN "True" ELSE "False")

C7_Witness ==
    /\ hook.kind = "processor" /\ hook.multiple /\ hook_ret = "True"
    /\ Len(calls) = 2
    /\ calls[1] # calls[2]

RECURSIVE WhitespaceTokens(_)
\* the maximal runs of non-whitespace characters, in order
WhitespaceTokens(chars) ==
    LET white(i) == chars[i] \in {" ", "\t"}
    IN  IF chars = <<>> THEN <<>>
        ELSE IF white(1) THEN WhitespaceTokens(Tail(chars))
        ELSE LET end == CHOOSE i \in 1 .. Len(chars) :
                            /\ \A j \in 1 .. i : ~white(j)
                            /\ i = Len(chars) \/ white(i + 1)
             IN  <<SubSeq(chars, 1, end)>>
                   \o WhitespaceTokens(SubSeq(chars, end + 1, Len(chars)))

\* C8: a command hook run on a text whose command name is the hook's calls
\* the handler once, with the whitespace-separated tokens after the command
\* token as args (no empty token), and returns true; on a missing text or
\* another command name it calls nothing and does not return true.
C8_CommandArgs ==
    (hook.kind = "command" /\ hook_ret # "pending")
    => IF ~text.none /\ CommandsReMatch(text.chars).matched
            /\ CommandsReMatch(text.chars).group1 = hook.command
       THEN /\ calls = <<[func |-> hook.func,
                          args |-> <<Tail(WhitespaceTokens(text.chars))>>]>>
            /\ hook_ret = "True"
       ELSE calls = <<>> /\ hook_ret # "True"

\* ------------------------------------------------------ more fetcher claims
\* C11: BacklogResolved is sticky: once backlog_processed is true, no step
\* of any fetch (non-empty, empty, all-backlog or failing) makes it false.
C11_Sticky == [][backlog_processed => backlog_processed']_vars

C11_Witness ==
    /\ ~process_backlog /\ backlog_processed
    /\ Done /\ resolved_at_call /\ AllBacklog(updates)

\* the search of the last fetch has ended, and with what probe
Searched == DoneAwaiting /\ updates # <<>>
Underflow == Searched /\ to_check < 0
Overflow == Searched /\ to_check >= Len(updates)

C13_OverflowUnresolved ==
    /\ [](Overflow => /\ ~backlog_processed
                      /\ ret_process = <<>>
                      /\ ret_backlog = updates)
    /\ [][(Overflow /\ updates' # <<>>)
            => /\ pc' = "search"
               /\ to_check' = Len(updates') - 1
               /\ check_chunk' = Len(updates')
               /\ last' = 0 ]_vars

C13_Witness ==
    /\ pc = "search" /\ offset >= 2
    /\ to_check = Len(updates) - 1 /\ last = 0

\* C15 as stated: every read of the batch is at an index in 0 .. len - 1,
\* and the probe of the final split is in 0 .. len.
C15_ProbeInRange ==
    /\ pc = "search" => (0 <= to_check /\ to_check < Len(updates))
    /\ Searched => (0 <= to_check /\ to_check <= Len(updates))

\* C15 amended: every read of the batch is at an index in 0 .. len - 1; the
\* probe of the final split is in -1 .. len - 1 + max(1, len div 2), so it
\* can be -1 or past the end, where the slices take it without an index
\* error: backlog followed by live is still the batch.
C15_ReadsInRange ==
    /\ pc = "search" => (0 <= to_check /\ to_check < Len(updates))
    /\ Searched =>
         /\ -1 <= to_check
         /\ to_check <= Len(updates) - 1 + NextChunk(Len(updates))
         /\ ret_backlog \o ret_process = updates

C15_Witness ==
    /\ Overflow /\ to_check > Len(updates)
    /\ ret_backlog = updates /\ Len(updates) >= 3

\* C18: a batch with no backlog at all, fetched in
\* AwaitingBacklogResolution, is returned whole as live, with an empty
\* backlog list.
C18_AllLive ==
    (Searched /\ ~HasBacklog(updates))
    => ret_process = updates /\ ret_backlog = <<>>

\* C19: every fetch that returns hands out a partition of the batch: the
\* backlog list followed by the live list is the batch, in every state and
\* on every exit of the search.
C19_Partition == Done => ret_backlog \o ret_process = updates

C19_Witness ==
    /\ Searched /\ 0 < to_check /\ to_check < Len(updates)
    /\ Len(ret_backlog) >= 2 /\ Len(ret_process) >= 2

\* C20: a fetch that fails with FetchError leaves last_id, started_at and
\* backlog_processed as they were, and the next fetch asks for the offset
\* the failed one asked for.
C20_FetchErrorFrame ==
    /\ [][(pc = "idle" /\ outcome' = "FetchError")
            => /\ UNCHANGED <<last_id, started_at, backlog_processed>>
               /\ offset' = last_id + 1 ]_vars
    /\ [][(pc = "idle" /\ outcome = "FetchError") => offset' = offset]_vars

C20_Witness ==
    /\ outcome = "FetchError" /\ last_id >= 1 /\ ~backlog_processed
    /\ offset = last_id + 1

\* C14: the while loop of every fetch ends: a fetch that has entered the
\* boundary search returns, whatever the length of the batch and whatever
\* its dates, ordered or not.
C14_SearchTerminates == (pc = "search") ~> (pc = "idle")

C14_Witness ==
    /\ Searched /\ ~NonDecreasing(updates) /\ Len(updates) = MaxBatch
    /\ 0 < to_check /\ to_check < Len(updates)

\* the last update of the batch is dated at or after started_at
LastIsLive(batch) == batch # <<>> /\ ~FromBacklog(batch[Len(batch)])

\* C16: a fetcher in AwaitingBacklogResolution that is polled again and
\* again against a source whose backlog is finite becomes BacklogResolved;
\* a non-empty batch whose last update is dated at or after started_at
\* always leaves it BacklogResolved.
C16_EventuallyResolved ==
    /\ (~backlog_processed) ~> backlog_processed
    /\ []((Searched /\ LastIsLive(updates)) => backlog_processed)

C16_Witness ==
    /\ Searched /\ LastIsLive(updates) /\ HasBacklog(updates)
    /\ offset >= 1 /\ backlog_processed

\* ------------------------------------------------------ descriptor claim
\* C17: every handler of every chain a component has handed out carries a
\* descriptor whose name is the component's name, "::" and the function's
\* name (the bare function name for a component without a name) and whose
\* component is that component; for all components at once, also when one
\* function is registered with two of them and both chains are built.
C17_Descriptors ==
    \A c \in Components :
        \A g \in 1 .. Len(hooks_chain[c]) :
            \A i \in 1 .. Len(hooks_chain[c][g]) :
                LET e == hooks_chain[c][g][i]
                IN  details[e.botogram] =
                        [name |-> Prefix(c) \o <<e.handler.name>>,
                         component |-> c]

====
